---- MODULE Spec2Model ----
(***************************************************************************)
(* Model of the Signal Scoring Engine of srees16/ai_trading:              *)
(*   src/decision_engine/engine.py  (DecisionEngine)                       *)
(*   src/metrics/calculator.py      (MetricsCalculator)                    *)
(*   src/notifications/manager.py   (NotificationManager)                  *)
(*   src/main.py                    (AlgoTradingSystem.run)                *)
(*                                                                         *)
(* Number representation.  Python floats are modelled as exact scaled      *)
(* integers (binary rounding error is not modelled):                       *)
(*   - every input quantity (polarity, confidence, PEG, ROE, EPS, prices,  *)
(*     RSI, MACD histogram, drawdown, thresholds, weights) is an integer   *)
(*     number of hundredths: H(1) = 1.00;                                  *)
(*   - a component score is an integer number of 1/12000: One = 1.0, so    *)
(*     that the tenths the checks add divide exactly by a count of 1..4    *)
(*     and a polarity in hundredths times 1.2 stays an integer;            *)
(*   - the combined score is a component score times a weight in           *)
(*     hundredths, so 1.0 is One * H(1).                                   *)
(* None and NaN are two reserved integers outside every input domain.      *)
(***************************************************************************)
EXTENDS Integers, Sequences, FiniteSets, TLC

VARIABLES cfg, call, result, history, pipeline, threads

vars == <<cfg, call, result, history, pipeline, threads>>

(***************************************************************************)
(* Python values                                                           *)
(***************************************************************************)
None == -1000000001
NaN == -1000000002

\* metrics = None (the Optional[StockMetrics] argument)
NoMetrics == [absent |-> TRUE]
\* an exception leaving a call
Raised == [raised |-> TRUE]

H(x) == x * 100
\* a contribution of `tenths`/10 in score units
S(tenths) == tenths * 1200
One == S(10)

IsNum(x) == x # None /\ x # NaN
\* bool(x) of an Optional[float]: None and 0 are falsy, NaN is truthy
Truthy(x) == x # None /\ x # 0
\* float comparisons: every comparison with NaN is False
LT(a, b) == IsNum(a) /\ IsNum(b) /\ a < b
GT(a, b) == IsNum(a) /\ IsNum(b) /\ a > b
GE(a, b) == IsNum(a) /\ IsNum(b) /\ a >= b
LE(a, b) == IsNum(a) /\ IsNum(b) /\ a <= b
\* a - b on floats
FSub(a, b) == IF a = NaN \/ b = NaN THEN NaN ELSE a - b
\* x or 0
OrZero(x) == IF Truthy(x) THEN x ELSE 0
\* a / b raises TypeError on None and ZeroDivisionError on a zero divisor
DivRaises(a, b) == a = None \/ b = None \/ b = 0
\* format(x, ".2f") etc. raises TypeError on None
FormatRaises(x) == x = None

Min(a, b) == IF b < a THEN b ELSE a
Max(a, b) == IF b > a THEN b ELSE a

\* n/d rounded to the nearest integer, ties to even (d > 0)
RoundDiv(n, d) ==
    LET q == n \div d
        r == n % d
    IN  IF 2 * r > d THEN q + 1
        ELSE IF 2 * r < d THEN q
        ELSE IF q % 2 = 0 THEN q ELSE q + 1

(***************************************************************************)
(* Config (class attributes read by the engine; never written)             *)
(***************************************************************************)
DefaultThresholds ==
    [STRONG_BUY_THRESHOLD |-> 60, BUY_THRESHOLD |-> 20,
     SELL_THRESHOLD |-> -20, STRONG_SELL_THRESHOLD |-> -60]

ThresholdGrid == {-60, -40, -20, 0, 20, 40, 60}

\* strong_sell < sell <= 0 <= buy < strong_buy, and sell < buy
ThresholdConfigs ==
    {t \in [STRONG_BUY_THRESHOLD : ThresholdGrid, BUY_THRESHOLD : ThresholdGrid,
            SELL_THRESHOLD : ThresholdGrid, STRONG_SELL_THRESHOLD : ThresholdGrid] :
        /\ t.STRONG_SELL_THRESHOLD < t.SELL_THRESHOLD
        /\ t.SELL_THRESHOLD <= 0
        /\ 0 <= t.BUY_THRESHOLD
        /\ t.SELL_THRESHOLD < t.BUY_THRESHOLD
        /\ t.BUY_THRESHOLD < t.STRONG_BUY_THRESHOLD}

WeightGrid == {0, 30, 40, 50, 100}

\* three non-negative weights that sum to 1.0
WeightConfigs ==
    {w \in [SENTIMENT_WEIGHT : WeightGrid, FUNDAMENTAL_WEIGHT : WeightGrid,
            TECHNICAL_WEIGHT : WeightGrid] :
        w.SENTIMENT_WEIGHT + w.FUNDAMENTAL_WEIGHT + w.TECHNICAL_WEIGHT = H(1)}

DefaultWeights ==
    [SENTIMENT_WEIGHT |-> 40, FUNDAMENTAL_WEIGHT |-> 30, TECHNICAL_WEIGHT |-> 30]

HighConfidenceThresholds == {50, 80}

Config(w, t, hc) ==
    [SENTIMENT_WEIGHT |-> w.SENTIMENT_WEIGHT,
     FUNDAMENTAL_WEIGHT |-> w.FUNDAMENTAL_WEIGHT,
     TECHNICAL_WEIGHT |-> w.TECHNICAL_WEIGHT,
     STRONG_BUY_THRESHOLD |-> t.STRONG_BUY_THRESHOLD,
     BUY_THRESHOLD |-> t.BUY_THRESHOLD,
     SELL_THRESHOLD |-> t.SELL_THRESHOLD,
     STRONG_SELL_THRESHOLD |-> t.STRONG_SELL_THRESHOLD,
     SENTIMENT_HIGH_CONFIDENCE_THRESHOLD |-> hc]

(***************************************************************************)
(* Data model: the fields of NewsItem and StockMetrics the engine reads    *)
(***************************************************************************)
SentimentLabel == {"POSITIVE", "NEGATIVE", "NEUTRAL"}

NewsItem(score, confidence, label) ==
    [sentiment_score |-> score, sentiment_confidence |-> confidence,
     sentiment_label |-> label]

StockMetrics(peg, roe, eps, iv, price, rsi, hist, bands, dd) ==
    [peg_ratio |-> peg, roe |-> roe, eps |-> eps, intrinsic_value |-> iv,
     current_price |-> price, rsi |-> rsi, macd_histogram |-> hist,
     bollinger_upper |-> bands[1], bollinger_middle |-> bands[2],
     bollinger_lower |-> bands[3], max_drawdown |-> dd]

NoBands == <<None, None, None>>

(***************************************************************************)
(* DecisionEngine._calculate_sentiment_score                               *)
(***************************************************************************)
\* max(-1.0, min(1.0, score))
Clamp(score) == Max(-One, Min(One, score))

\* the boost also at a confidence equal to the threshold
HighConfidenceInclusive(news_item, c) ==
    /\ Truthy(news_item.sentiment_confidence)
    /\ GE(news_item.sentiment_confidence, c.SENTIMENT_HIGH_CONFIDENCE_THRESHOLD)

HighConfidence(news_item, c) ==
    /\ Truthy(news_item.sentiment_confidence)
    /\ GT(news_item.sentiment_confidence, c.SENTIMENT_HIGH_CONFIDENCE_THRESHOLD)

\* the polarity (hundredths) as a score, boosted by 1.2 on high confidence
BoostedScore(news_item, c) ==
    LET score == news_item.sentiment_score * 120
    IN  IF HighConfidence(news_item, c) THEN (score * 12) \div 10 ELSE score

\* the score without the final clamp
SentimentScoreUnclamped(news_item, c) ==
    IF news_item.sentiment_score = None THEN 0
    ELSE BoostedScore(news_item, c)

_calculate_sentiment_score(news_item, c) ==
    IF news_item.sentiment_score = None THEN 0
    ELSE Clamp(BoostedScore(news_item, c))

(***************************************************************************)
(* DecisionEngine._calculate_fundamental_score                             *)
(***************************************************************************)
\* n/d > a/100, n/d < a/100 for a divisor d # 0 (NaN compares False)
RatioGT(n, d, a) ==
    /\ IsNum(n) /\ IsNum(d)
    /\ IF d > 0 THEN n * 100 > a * d ELSE n * 100 < a * d
RatioLT(n, d, a) ==
    /\ IsNum(n) /\ IsNum(d)
    /\ IF d > 0 THEN n * 100 < a * d ELSE n * 100 > a * d

PegChecked(metrics) == metrics.peg_ratio # None
PegDelta(metrics) ==
    IF LT(metrics.peg_ratio, H(1)) THEN S(5)
    ELSE IF LT(metrics.peg_ratio, H(2)) THEN S(2)
    ELSE IF GT(metrics.peg_ratio, H(3)) THEN -S(3)
    ELSE 0

RoeChecked(metrics) == metrics.roe # None
RoeDelta(metrics) ==
    IF GT(metrics.roe, H(20)) THEN S(4)
    ELSE IF GT(metrics.roe, H(15)) THEN S(2)
    ELSE IF LT(metrics.roe, H(10)) THEN -S(2)
    ELSE 0

EpsChecked(metrics) == metrics.eps # None
EpsDelta(metrics) ==
    IF GT(metrics.eps, H(5)) THEN S(3)
    ELSE IF GT(metrics.eps, 0) THEN S(1)
    ELSE -S(3)

\* the value-ratio check without the test for a positive price
ValueRatioCheckedAnyPrice(metrics) ==
    /\ metrics.intrinsic_value # None
    /\ metrics.current_price # None

ValueRatioChecked(metrics) ==
    /\ metrics.intrinsic_value # None
    /\ metrics.current_price # None
    /\ GT(metrics.current_price, 0)
\* value_ratio = intrinsic_value / current_price compared with 1.2, 1.0, 0.8
ValueRatioDelta(metrics) ==
    LET iv == metrics.intrinsic_value
        price == metrics.current_price
    IN  IF RatioGT(iv, price, 120) THEN S(5)
        ELSE IF RatioGT(iv, price, 100) THEN S(3)
        ELSE IF RatioLT(iv, price, 80) THEN -S(5)
        ELSE IF RatioLT(iv, price, 100) THEN -S(3)
        ELSE 0

Delta(checked, delta) == IF checked THEN delta ELSE 0
Count(checked) == IF checked THEN 1 ELSE 0

\* score = score / count if count > 0, then the clamp
Average(score, count) == Clamp(IF count > 0 THEN score \div count ELSE score)

FundamentalSum(metrics) ==
    Delta(PegChecked(metrics), PegDelta(metrics))
    + Delta(RoeChecked(metrics), RoeDelta(metrics))
    + Delta(EpsChecked(metrics), EpsDelta(metrics))
    + Delta(ValueRatioChecked(metrics), ValueRatioDelta(metrics))

\* every check counted, present or not
FundamentalCountAll(metrics) == 4

\* a check counted only when it changes the sum
FundamentalCountNonZero(metrics) ==
    Count(PegChecked(metrics) /\ PegDelta(metrics) # 0)
    + Count(RoeChecked(metrics) /\ RoeDelta(metrics) # 0)
    + Count(EpsChecked(metrics))
    + Count(ValueRatioChecked(metrics) /\ ValueRatioDelta(metrics) # 0)

FundamentalCount(metrics) ==
    Count(PegChecked(metrics)) + Count(RoeChecked(metrics))
    + Count(EpsChecked(metrics)) + Count(ValueRatioChecked(metrics))

_calculate_fundamental_score(metrics) ==
    IF metrics = NoMetrics THEN 0
    ELSE Average(FundamentalSum(metrics), FundamentalCount(metrics))

\* the division of the value-ratio check
FundamentalRaises(metrics) ==
    /\ metrics # NoMetrics
    /\ ValueRatioChecked(metrics)
    /\ DivRaises(metrics.intrinsic_value, metrics.current_price)

(***************************************************************************)
(* DecisionEngine._calculate_technical_score                               *)
(***************************************************************************)
RsiChecked(metrics) == metrics.rsi # None
\* the RSI bands with their boundaries on the other side
RsiDeltaInclusive(metrics) ==
    IF LE(metrics.rsi, H(30)) THEN S(5)
    ELSE IF LE(metrics.rsi, H(40)) THEN S(2)
    ELSE IF GE(metrics.rsi, H(70)) THEN -S(5)
    ELSE IF GE(metrics.rsi, H(60)) THEN -S(2)
    ELSE 0

RsiDelta(metrics) ==
    IF LT(metrics.rsi, H(30)) THEN S(5)
    ELSE IF LT(metrics.rsi, H(40)) THEN S(2)
    ELSE IF GT(metrics.rsi, H(70)) THEN -S(5)
    ELSE IF GT(metrics.rsi, H(60)) THEN -S(2)
    ELSE 0

MacdChecked(metrics) == metrics.macd_histogram # None
MacdDelta(metrics) == IF GT(metrics.macd_histogram, 0) THEN S(3) ELSE -S(3)

BandRange(metrics) == FSub(metrics.bollinger_upper, metrics.bollinger_lower)

BandsPresent(metrics) ==
    /\ metrics.current_price # None
    /\ metrics.bollinger_upper # None
    /\ metrics.bollinger_lower # None
    /\ metrics.bollinger_middle # None

BollingerChecked(metrics) ==
    /\ BandsPresent(metrics)
    /\ GT(BandRange(metrics), 0)

\* the Bollinger bands with their boundaries on the other side
BollingerDeltaInclusive(metrics) ==
    LET off == FSub(metrics.current_price, metrics.bollinger_lower)
        band_range == BandRange(metrics)
    IN  IF ~RatioGT(off, band_range, 20) THEN S(4)
        ELSE IF ~RatioGT(off, band_range, 40) THEN S(2)
        ELSE IF ~RatioLT(off, band_range, 80) THEN -S(4)
        ELSE IF ~RatioLT(off, band_range, 60) THEN -S(2)
        ELSE 0

\* position = (current_price - bollinger_lower) / band_range against 0.2 .. 0.8
BollingerDelta(metrics) ==
    LET off == FSub(metrics.current_price, metrics.bollinger_lower)
        band_range == BandRange(metrics)
    IN  IF RatioLT(off, band_range, 20) THEN S(4)
        ELSE IF RatioLT(off, band_range, 40) THEN S(2)
        ELSE IF RatioGT(off, band_range, 80) THEN -S(4)
        ELSE IF RatioGT(off, band_range, 60) THEN -S(2)
        ELSE 0

DrawdownChecked(metrics) == metrics.max_drawdown # None
DrawdownDelta(metrics) ==
    IF LT(metrics.max_drawdown, -H(30)) THEN -S(3)
    ELSE IF LT(metrics.max_drawdown, -H(20)) THEN -S(1)
    ELSE 0

TechnicalSum(metrics) ==
    Delta(RsiChecked(metrics), RsiDelta(metrics))
    + Delta(MacdChecked(metrics), MacdDelta(metrics))
    + Delta(BollingerChecked(metrics), BollingerDelta(metrics))
    + Delta(DrawdownChecked(metrics), DrawdownDelta(metrics))

TechnicalCount(metrics) ==
    Count(RsiChecked(metrics)) + Count(MacdChecked(metrics))
    + Count(BollingerChecked(metrics)) + Count(DrawdownChecked(metrics))

\* absent metrics scored like a record of zeros (MACD histogram <= 0)
TechnicalScoreAbsentAsZero(metrics) ==
    IF metrics = NoMetrics THEN -S(3)
    ELSE Average(TechnicalSum(metrics), TechnicalCount(metrics))

_calculate_technical_score(metrics) ==
    IF metrics = NoMetrics THEN 0
    ELSE Average(TechnicalSum(metrics), TechnicalCount(metrics))

\* the division of the Bollinger position
TechnicalRaises(metrics) ==
    /\ metrics # NoMetrics
    /\ BollingerChecked(metrics)
    /\ DivRaises(FSub(metrics.current_price, metrics.bollinger_lower),
                 BandRange(metrics))

(***************************************************************************)
(* DecisionEngine._score_to_decision                                       *)
(***************************************************************************)
DecisionTag == {"STRONG_BUY", "BUY", "HOLD", "SELL", "STRONG_SELL"}

\* a threshold (hundredths) on the combined-score axis
T(threshold) == threshold * One

\* exclusive comparisons
ScoreToDecisionStrict(score, c) ==
    IF score > T(c.STRONG_BUY_THRESHOLD) THEN "STRONG_BUY"
    ELSE IF score > T(c.BUY_THRESHOLD) THEN "BUY"
    ELSE IF score < T(c.STRONG_SELL_THRESHOLD) THEN "STRONG_SELL"
    ELSE IF score < T(c.SELL_THRESHOLD) THEN "SELL"
    ELSE "HOLD"

\* the SELL guard tested against the BUY threshold
ScoreToDecisionSellBelowBuy(score, c) ==
    IF score >= T(c.STRONG_BUY_THRESHOLD) THEN "STRONG_BUY"
    ELSE IF score >= T(c.BUY_THRESHOLD) THEN "BUY"
    ELSE IF score <= T(c.STRONG_SELL_THRESHOLD) THEN "STRONG_SELL"
    ELSE IF score <= T(c.BUY_THRESHOLD) THEN "SELL"
    ELSE "HOLD"

\* the STRONG_SELL comparison turned round
ScoreToDecisionStrongSellFlipped(score, c) ==
    IF score >= T(c.STRONG_BUY_THRESHOLD) THEN "STRONG_BUY"
    ELSE IF score >= T(c.BUY_THRESHOLD) THEN "BUY"
    ELSE IF score >= T(c.STRONG_SELL_THRESHOLD) THEN "STRONG_SELL"
    ELSE IF score <= T(c.SELL_THRESHOLD) THEN "SELL"
    ELSE "HOLD"

_score_to_decision(score, c) ==
    IF score >= T(c.STRONG_BUY_THRESHOLD) THEN "STRONG_BUY"
    ELSE IF score >= T(c.BUY_THRESHOLD) THEN "BUY"
    ELSE IF score <= T(c.STRONG_SELL_THRESHOLD) THEN "STRONG_SELL"
    ELSE IF score <= T(c.SELL_THRESHOLD) THEN "SELL"
    ELSE "HOLD"

(***************************************************************************)
(* DecisionEngine._generate_reasoning                                      *)
(* A string is the sequence of its pieces; a formatted number is the       *)
(* integer its digits spell (NaN prints as "nan").                         *)
(***************************************************************************)
Piece(text, value) == [text |-> text, value |-> value]

\* format(x, ".2%") of a value in hundredths: units of 0.01 %
FormatPercent2(x) == IF x = NaN THEN NaN ELSE x * 100
\* format(x, ".2f") of a value in hundredths: its two decimals are exact
Format2f(x) == IF x = NaN THEN NaN ELSE x
\* format(x, ".1f") of a value in hundredths: tenths
Format1f(x) == IF x = NaN THEN NaN ELSE RoundDiv(x, 10)
\* format(n / d, ".1%"): units of 0.1 %
FormatRatioPercent1(n, d) ==
    IF n = NaN \/ d = NaN THEN NaN
    ELSE IF d > 0 THEN RoundDiv(n * 1000, d)
    ELSE RoundDiv((-n) * 1000, -d)
\* format(combined_score, ".2f"): hundredths
FormatScore(combined_score) == RoundDiv(combined_score, One)

SentimentReasons(news_item) ==
    IF news_item.sentiment_label = "POSITIVE"
    THEN <<Piece("Positive news sentiment (% confidence)",
                 FormatPercent2(OrZero(news_item.sentiment_confidence)))>>
    ELSE IF news_item.sentiment_label = "NEGATIVE"
    THEN <<Piece("Negative news sentiment (% confidence)",
                 FormatPercent2(OrZero(news_item.sentiment_confidence)))>>
    ELSE <<>>

PegReasoned(metrics) ==
    Truthy(metrics.peg_ratio) /\ LT(metrics.peg_ratio, H(1))
RoeReasoned(metrics) ==
    Truthy(metrics.roe) /\ GT(metrics.roe, H(15))
RatioReasoned(metrics) ==
    Truthy(metrics.intrinsic_value) /\ Truthy(metrics.current_price)

RatioReasons(metrics) ==
    LET iv == metrics.intrinsic_value
        price == metrics.current_price
    IN  IF RatioGT(iv, price, 120)
        THEN <<Piece("Undervalued (% of intrinsic value)",
                     FormatRatioPercent1(iv, price))>>
        ELSE IF RatioLT(iv, price, 80)
        THEN <<Piece("Overvalued (% of intrinsic value)",
                     FormatRatioPercent1(iv, price))>>
        ELSE <<>>

FundamentalReasons(metrics) ==
    IF metrics = NoMetrics THEN <<>>
    ELSE (IF PegReasoned(metrics)
          THEN <<Piece("Strong PEG ratio ()", Format2f(metrics.peg_ratio))>>
          ELSE <<>>)
      \o (IF RoeReasoned(metrics)
          THEN <<Piece("Good ROE (%)", Format1f(metrics.roe))>>
          ELSE <<>>)
      \o (IF RatioReasoned(metrics) THEN RatioReasons(metrics) ELSE <<>>)

RsiReasons(metrics) ==
    IF LT(metrics.rsi, H(30))
    THEN <<Piece("Oversold RSI ()", Format1f(metrics.rsi))>>
    ELSE IF GT(metrics.rsi, H(70))
    THEN <<Piece("Overbought RSI ()", Format1f(metrics.rsi))>>
    ELSE <<>>

MacdReasons(metrics) ==
    IF GT(metrics.macd_histogram, 0)
    THEN <<Piece("Bullish MACD", None)>>
    ELSE <<Piece("Bearish MACD", None)>>

TechnicalReasons(metrics) ==
    IF metrics = NoMetrics THEN <<>>
    ELSE (IF Truthy(metrics.rsi) THEN RsiReasons(metrics) ELSE <<>>)
      \o (IF Truthy(metrics.macd_histogram) THEN MacdReasons(metrics) ELSE <<>>)

Reasons(news_item, metrics) ==
    SentimentReasons(news_item) \o FundamentalReasons(metrics)
    \o TechnicalReasons(metrics)

\* "; ".join(reasons)
Join(reasons) ==
    [i \in 1..(2 * Len(reasons) - 1) |->
        IF i % 2 = 1 THEN reasons[(i + 1) \div 2] ELSE Piece("; ", None)]

GenericClause == Piece("Based on available data", None)

\* the generic clause added whenever the sentiment clause is missing
GenerateReasoningGenericWithoutSentiment(news_item, metrics, combined_score) ==
    LET reasons == IF SentimentReasons(news_item) = <<>>
                   THEN <<GenericClause>> \o Reasons(news_item, metrics)
                   ELSE Reasons(news_item, metrics)
    IN  Join(reasons)
        \o <<Piece(" | Combined score: ", FormatScore(combined_score))>>

_generate_reasoning(news_item, metrics, combined_score) ==
    LET reasons == Reasons(news_item, metrics)
    IN  (IF Len(reasons) > 0 THEN Join(reasons) ELSE <<GenericClause>>)
        \o <<Piece(" | Combined score: ", FormatScore(combined_score))>>

\* the division and the formats of _generate_reasoning
ReasoningRaises(news_item, metrics) ==
    \/ /\ news_item.sentiment_label \in {"POSITIVE", "NEGATIVE"}
       /\ FormatRaises(OrZero(news_item.sentiment_confidence))
    \/ /\ metrics # NoMetrics
       /\ \/ PegReasoned(metrics) /\ FormatRaises(metrics.peg_ratio)
          \/ RoeReasoned(metrics) /\ FormatRaises(metrics.roe)
          \/ /\ RatioReasoned(metrics)
             /\ DivRaises(metrics.intrinsic_value, metrics.current_price)
          \/ Truthy(metrics.rsi) /\ FormatRaises(metrics.rsi)

(***************************************************************************)
(* DecisionEngine.generate_signal                                          *)
(***************************************************************************)
\* no TradingSignal is returned: the call raised
NoSignal == [absent |-> TRUE]

\* the three scores added without their weights
CombinedScoreUnweighted(sentiment_score, fundamental_score, technical_score, c) ==
    (sentiment_score + fundamental_score + technical_score) * H(1)

\* the combined score kept on the engine and added to by every call
CombinedScoreAccumulated(sentiment_score, fundamental_score, technical_score, c) ==
    sentiment_score * c.SENTIMENT_WEIGHT
    + fundamental_score * c.FUNDAMENTAL_WEIGHT
    + technical_score * c.TECHNICAL_WEIGHT
    + (IF Len(history) > 0 /\ history[Len(history)].signal # NoSignal
       THEN history[Len(history)].signal.decision_score ELSE 0)

CombinedScore(sentiment_score, fundamental_score, technical_score, c) ==
    sentiment_score * c.SENTIMENT_WEIGHT
    + fundamental_score * c.FUNDAMENTAL_WEIGHT
    + technical_score * c.TECHNICAL_WEIGHT

TradingSignal(news_item, metrics, decision, decision_score, reasoning) ==
    [news_item |-> news_item, metrics |-> metrics, decision |-> decision,
     decision_score |-> decision_score, reasoning |-> reasoning]

GenerateSignalRaises(news_item, metrics) ==
    \/ FundamentalRaises(metrics)
    \/ TechnicalRaises(metrics)
    \/ ReasoningRaises(news_item, metrics)

\* the locals of generate_signal and the TradingSignal it returns
generate_signal(news_item, metrics, c) ==
    IF GenerateSignalRaises(news_item, metrics)
    THEN [raised |-> TRUE, signal |-> NoSignal]
    ELSE
    LET sentiment_score == _calculate_sentiment_score(news_item, c)
        fundamental_score == _calculate_fundamental_score(metrics)
        technical_score == _calculate_technical_score(metrics)
        combined_score == CombinedScore(sentiment_score, fundamental_score,
                                        technical_score, c)
    IN  [raised |-> FALSE,
         sentiment_score |-> sentiment_score,
         fundamental_score |-> fundamental_score,
         technical_score |-> technical_score,
         signal |-> TradingSignal(news_item, metrics,
                        _score_to_decision(combined_score, c), combined_score,
                        _generate_reasoning(news_item, metrics, combined_score))]

(***************************************************************************)
(* Indicator Module: MetricsCalculator (src/metrics/calculator.py).        *)
(* A fundamentals mapping `info` holds, per fact, None (missing), a number *)
(* in hundredths, or Bad (a value float() cannot convert).  A price        *)
(* history is the sequence of its bars, oldest first, each bar a record    *)
(* of High, Low and Close in hundredths.  A dict is a function on the keys *)
(* assigned so far.                                                        *)
(***************************************************************************)
Bad == -1000000003

\* d.get(k)
Get(d, k) == IF k \in DOMAIN d THEN d[k] ELSE None

RECURSIVE SumSeq(_)
SumSeq(xs) == IF xs = <<>> THEN 0 ELSE Head(xs) + SumSeq(Tail(xs))

\* the last `period` entries of xs (Len(xs) >= period)
Window(xs, period) == SubSeq(xs, Len(xs) - period + 1, Len(xs))

RECURSIVE SqrtBetween(_, _, _)
\* the largest r in lo..hi with r * r <= x
SqrtBetween(x, lo, hi) ==
    IF lo = hi THEN lo
    ELSE LET mid == (lo + hi + 1) \div 2
         IN  IF mid * mid <= x THEN SqrtBetween(x, mid, hi)
             ELSE SqrtBetween(x, lo, mid - 1)

\* MetricsCalculator._calculate_dcf: terminal value fcf * 1.03 / 0.07 per share
_calculate_dcf(info) ==
    LET fcf == info.freeCashflow
        shares == info.sharesOutstanding
    IN  IF ~Truthy(fcf) \/ ~Truthy(shares) THEN None
        ELSE IF fcf = Bad \/ shares = Bad THEN None
        ELSE RoundDiv(fcf * 103 * H(1), 7 * shares)

\* MetricsCalculator._calculate_intrinsic_value: eps * (8.5 + 2g) * 4.4 / 4.5,
\* g = (growth * 100) if growth else 10, in hundredths
_calculate_intrinsic_value(info) ==
    LET eps == info.trailingEps
        growth == info.earningsGrowth
        g == IF Truthy(growth) THEN growth * 100 ELSE H(10)
    IN  IF ~Truthy(eps) THEN None
        ELSE IF eps = Bad \/ growth = Bad THEN None
        ELSE RoundDiv(eps * (850 + 2 * g) * 44, H(1) * 45)

\* float(x) if x else None
FloatIfTruthy(x) == IF Truthy(x) THEN x ELSE None

\* MetricsCalculator._calculate_fundamentals: one try block; the first
\* statement that raises (float() of a truthy value it cannot convert) ends
\* it and the dict built so far is returned
_calculate_fundamentals(info) ==
    LET peg == info.pegRatio
        roe == info.returnOnEquity
        eps == info.trailingEps
        fcf == info.freeCashflow
        d0 == [k \in {} |-> None]
        d1 == d0 @@ ("peg_ratio" :> FloatIfTruthy(peg))
        d2 == d1 @@ ("roe" :> IF Truthy(roe) THEN roe * 100 ELSE None)
        d3 == d2 @@ ("eps" :> FloatIfTruthy(eps))
        d4 == d3 @@ ("free_cash_flow" :> FloatIfTruthy(fcf))
        d5 == d4 @@ ("dcf_value" :> _calculate_dcf(info))
        d6 == d5 @@ ("intrinsic_value" :> _calculate_intrinsic_value(info))
    IN  IF peg = Bad THEN d0
        ELSE IF roe = Bad THEN d1
        ELSE IF eps = Bad THEN d2
        ELSE IF fcf = Bad THEN d3
        ELSE d6

\* MetricsCalculator._calculate_rsi, in hundredths.  The first delta of
\* prices.diff() is NaN, which both where() calls replace by 0.  The two
\* rolling means are NaN with fewer than `period` bars; their quotient is
\* the quotient of the two window sums, inf on a zero loss and NaN on 0/0.
_calculate_rsi(prices, period) ==
    IF prices = <<>> THEN None
    ELSE IF Len(prices) < period THEN NaN
    ELSE LET delta == [i \in 1..Len(prices) |->
                          IF i = 1 THEN NaN ELSE prices[i] - prices[i - 1]]
             gains == [i \in 1..Len(prices) |->
                          IF GT(delta[i], 0) THEN delta[i] ELSE 0]
             losses == [i \in 1..Len(prices) |->
                          IF LT(delta[i], 0) THEN -delta[i] ELSE 0]
             gain == SumSeq(Window(gains, period))
             loss == SumSeq(Window(losses, period))
         IN  IF loss = 0 /\ gain = 0 THEN NaN
             ELSE IF loss = 0 THEN H(100)
             ELSE RoundDiv(H(100) * gain, gain + loss)

RECURSIVE EwmMean(_, _, _)
\* xs.ewm(span, adjust=False).mean() at bar i: alpha = 2 / (span + 1)
EwmMean(xs, span, i) ==
    IF i = 1 THEN xs[1]
    ELSE RoundDiv((span - 1) * EwmMean(xs, span, i - 1) + 2 * xs[i], span + 1)

\* MetricsCalculator._calculate_macd.  The averages are computed on the
\* prices in ten-thousandths and the three values are returned in
\* ten-thousandths; .iloc[-1] of an empty series raises IndexError.
_calculate_macd(prices, fast, slow, signal) ==
    IF prices = <<>>
    THEN [macd |-> None, signal |-> None, histogram |-> None]
    ELSE LET n == Len(prices)
             fine == [i \in 1..n |-> prices[i] * 100]
             macd == [i \in 1..n |-> EwmMean(fine, fast, i) - EwmMean(fine, slow, i)]
             signal_line == EwmMean(macd, signal, n)
         IN  [macd |-> macd[n], signal |-> signal_line,
              histogram |-> macd[n] - signal_line]

\* MetricsCalculator._calculate_bollinger_bands: rolling mean and sample
\* standard deviation (its square root rounded down), NaN with fewer than
\* `period` bars
_calculate_bollinger_bands(prices, period, std_dev) ==
    IF prices = <<>>
    THEN [upper |-> None, middle |-> None, lower |-> None]
    ELSE IF Len(prices) < period \/ period < 2
    THEN [upper |-> NaN, middle |-> NaN, lower |-> NaN]
    ELSE LET w == Window(prices, period)
             total == SumSeq(w)
             sma == RoundDiv(total, period)
             squares == SumSeq([i \in 1..period |->
                            (period * w[i] - total) * (period * w[i] - total)])
             variance == RoundDiv(squares, period * period * (period - 1))
             std == SqrtBetween(variance, 0, Min(variance, 46340))
         IN  [upper |-> sma + std * std_dev, middle |-> sma,
              lower |-> sma - std * std_dev]

\* MetricsCalculator._calculate_fibonacci: each level is
\* float(high - ratio * diff), ratio in thousandths; max() and min() of an
\* empty column are NaN
_calculate_fibonacci(hist) ==
    IF hist = <<>>
    THEN [k \in {"0.0", "0.236", "0.382", "0.500", "0.618", "0.786", "1.0"} |-> NaN]
    ELSE LET highs == {hist[i].High : i \in 1..Len(hist)}
             lows == {hist[i].Low : i \in 1..Len(hist)}
             high == CHOOSE x \in highs : \A y \in highs : x >= y
             low == CHOOSE x \in lows : \A y \in lows : x <= y
             level(ratio) == RoundDiv(1000 * high - ratio * (high - low), 1000)
         IN  ("0.0" :> high) @@ ("0.236" :> level(236))
             @@ ("0.382" :> level(382)) @@ ("0.500" :> level(500))
             @@ ("0.618" :> level(618)) @@ ("0.786" :> level(786))
             @@ ("1.0" :> low)

\* MetricsCalculator._calculate_max_drawdown, a percentage in hundredths
\* (prices are positive); min() of an empty series is NaN
_calculate_max_drawdown(hist) ==
    IF hist = <<>> THEN NaN
    ELSE LET prices == [i \in 1..Len(hist) |-> hist[i].Close]
             cumulative_max == [i \in 1..Len(hist) |->
                 CHOOSE x \in {prices[j] : j \in 1..i} :
                     \A j \in 1..i : x >= prices[j]]
             drawdown == {RoundDiv(H(100) * (prices[i] - cumulative_max[i]),
                                   cumulative_max[i]) : i \in 1..Len(hist)}
         IN  CHOOSE x \in drawdown : \A y \in drawdown : x <= y

\* MetricsCalculator._calculate_technicals: one try block; on an empty
\* history hist['Close'].iloc[-1] raises IndexError before any key is set
_calculate_technicals(hist, c) ==
    IF hist = <<>> THEN [k \in {} |-> None]
    ELSE LET prices == [i \in 1..Len(hist) |-> hist[i].Close]
             macd_dict == _calculate_macd(prices, c.MACD_FAST, c.MACD_SLOW,
                                          c.MACD_SIGNAL)
             bb_dict == _calculate_bollinger_bands(prices, c.BOLLINGER_PERIOD,
                                                   c.BOLLINGER_STD)
         IN  ("current_price" :> prices[Len(prices)])
             @@ ("rsi" :> _calculate_rsi(prices, c.RSI_PERIOD))
             @@ ("macd" :> macd_dict.macd)
             @@ ("macd_signal" :> macd_dict.signal)
             @@ ("macd_histogram" :> macd_dict.histogram)
             @@ ("bollinger_upper" :> bb_dict.upper)
             @@ ("bollinger_middle" :> bb_dict.middle)
             @@ ("bollinger_lower" :> bb_dict.lower)
             @@ ("fibonacci_levels" :> _calculate_fibonacci(hist))
             @@ ("max_drawdown" :> _calculate_max_drawdown(hist))

\* get_stock_metrics without its try / except: a provider error leaves it
GetStockMetricsUnguarded(answer, c) ==
    IF answer.raises THEN Raised
    ELSE IF answer.hist = <<>> THEN NoMetrics
    ELSE LET fundamentals == _calculate_fundamentals(answer.info)
             technicals == _calculate_technicals(answer.hist, c)
         IN  StockMetrics(Get(fundamentals, "peg_ratio"),
                          Get(fundamentals, "roe"),
                          Get(fundamentals, "eps"),
                          Get(fundamentals, "intrinsic_value"),
                          Get(technicals, "current_price"),
                          Get(technicals, "rsi"),
                          Get(technicals, "macd_histogram"),
                          <<Get(technicals, "bollinger_upper"),
                            Get(technicals, "bollinger_middle"),
                            Get(technicals, "bollinger_lower")>>,
                          Get(technicals, "max_drawdown"))

\* MetricsCalculator.get_stock_metrics.  `answer` is what the market-data
\* provider does for the ticker: it raises, or gives a fundamentals mapping
\* `info` and a price history `hist`.  None on an exception and on an empty
\* history, else the record of the fields the engine reads.
get_stock_metrics(answer, c) ==
    IF answer.raises THEN NoMetrics
    ELSE IF answer.hist = <<>> THEN NoMetrics
    ELSE LET fundamentals == _calculate_fundamentals(answer.info)
             technicals == _calculate_technicals(answer.hist, c)
         IN  StockMetrics(Get(fundamentals, "peg_ratio"),
                          Get(fundamentals, "roe"),
                          Get(fundamentals, "eps"),
                          Get(fundamentals, "intrinsic_value"),
                          Get(technicals, "current_price"),
                          Get(technicals, "rsi"),
                          Get(technicals, "macd_histogram"),
                          <<Get(technicals, "bollinger_upper"),
                            Get(technicals, "bollinger_middle"),
                            Get(technicals, "bollinger_lower")>>,
                          Get(technicals, "max_drawdown"))

(***************************************************************************)
(* NotificationManager (src/notifications/manager.py) and the loop of      *)
(* AlgoTradingSystem.run (src/main.py)                                     *)
(***************************************************************************)
\* NotificationManager.send_notification: the popup when plyer is available
\* and notify() does not raise, else the console fallback
send_notification(enabled, popup_ok) ==
    IF enabled /\ popup_ok THEN "popup" ELSE "console"

\* NewsItem.is_highly_positive / is_highly_negative
IsHighSentiment(news_item, c) ==
    /\ news_item.sentiment_label \in {"POSITIVE", "NEGATIVE"}
    /\ HighConfidence(news_item, c)

\* NotificationManager.notify_multiple_news: one alert per high-sentiment
\* item, in list order
notify_multiple_news(news_items, c, channel) ==
    LET alert(i) ==
            IF IsHighSentiment(news_items[i], c)
            THEN [kind |-> "news", channel |-> channel, item |-> i,
                  decision |-> news_items[i].sentiment_label,
                  score |-> FormatPercent2(news_items[i].sentiment_confidence)]
            ELSE [kind |-> "none"]
    IN  SelectSeq([i \in 1..Len(news_items) |-> alert(i)],
                  LAMBDA a : a.kind = "news")

\* the tag test of a single alert, STRONG_BUY only
NotifyTradingSignalBuyOnly(signal, item, channel) ==
    IF signal.decision \in {"STRONG_BUY"}
    THEN <<[kind |-> "trading_signal", channel |-> channel, item |-> item,
            decision |-> signal.decision,
            score |-> FormatScore(signal.decision_score)]>>
    ELSE <<>>

\* NotificationManager.notify_trading_signal: the notifications it sends
\* for the signal of item number `item`
notify_trading_signal(signal, item, channel) ==
    IF signal.decision \in {"STRONG_BUY", "STRONG_SELL"}
    THEN <<[kind |-> "trading_signal", channel |-> channel, item |-> item,
            decision |-> signal.decision,
            score |-> FormatScore(signal.decision_score)]>>
    ELSE <<>>

(***************************************************************************)
(* Inputs                                                                  *)
(***************************************************************************)
Polarities == {None, -150, -100, -90, -85, -50, 0, 50, 80, 85, 90, 100, 150}
Confidences == {None, 0, 50, 79, 80, 81, 95, 100}

NewsItems ==
    {NewsItem(p, cf, l) : p \in Polarities, cf \in Confidences, l \in SentimentLabel}

PegValues == {None, 0, 80, 100, 150, 200, 250, 300, 350}
RoeValues == {None, 0, 500, 1000, 1200, 1500, 1800, 2000, 2500}
EpsValues == {None, -100, 0, 300, 500, 600}
IntrinsicValues == {None, -5000, 0, 7000, 8000, 9000, 10000, 11000, 12000, 13000}
FundamentalPrices == {None, NaN, -100, 0, 10000}

\* metrics records with no technical field
FundamentalInputs ==
    {StockMetrics(peg, roe, eps, iv, price, None, None, NoBands, None) :
        peg \in PegValues, roe \in RoeValues, eps \in EpsValues,
        iv \in IntrinsicValues, price \in FundamentalPrices}

RsiValues ==
    {None, NaN, 0, 2500, 3000, 3500, 4000, 5000, 6000, 6500, 7000, 7500, 10000}
MacdValues == {None, NaN, -10, 0, 10}
\* <<upper, middle, lower>>
BandValues ==
    {NoBands, <<NaN, NaN, NaN>>, <<11000, 10000, 9000>>, <<11000, None, 9000>>,
     <<10000, 10000, 10000>>, <<9000, 10000, 11000>>}
TechnicalPrices ==
    {None, NaN, 0, 8000, 9000, 9200, 9400, 9600, 9800, 10000, 10200, 10400,
     10600, 10800, 11000, 12000}
DrawdownValues == {None, NaN, -3500, -3000, -2500, -2000, -1000, 0}

\* metrics records with no fundamental field
TechnicalInputs ==
    {StockMetrics(None, None, None, None, price, rsi, hist, bands, dd) :
        price \in TechnicalPrices, rsi \in RsiValues, hist \in MacdValues,
        bands \in BandValues, dd \in DrawdownValues}

\* combined scores from -1.2 to 1.2 in steps of 0.05
ScoreInputs == {k * 5 * One : k \in -24..24}

(***************************************************************************)
(* Operations.  The engine object has no field (__init__ is `pass`); the   *)
(* state is the configuration, the call being made with its arguments,     *)
(* what it returned, and the log of the signals returned so far; for the   *)
(* pipeline the state of the run, for concurrent calls their frames.       *)
(***************************************************************************)
Pending == [pending |-> TRUE]
\* no pipeline run in progress
NoRun == [idle |-> TRUE]

SentimentCall(news_item) ==
    [op |-> "_calculate_sentiment_score", news_item |-> news_item]
FundamentalCall(metrics) ==
    [op |-> "_calculate_fundamental_score", metrics |-> metrics]
TechnicalCall(metrics) ==
    [op |-> "_calculate_technical_score", metrics |-> metrics]
DecisionCall(score) == [op |-> "_score_to_decision", score |-> score]
SignalCall(news_item, metrics) ==
    [op |-> "generate_signal", news_item |-> news_item, metrics |-> metrics]

CalcSentiment ==
    /\ call.op = "_calculate_sentiment_score"
    /\ result = Pending
    /\ result' = [raised |-> FALSE,
                  value |-> _calculate_sentiment_score(call.news_item, cfg)]
    /\ UNCHANGED <<cfg, call, history, pipeline, threads>>

CalcFundamental ==
    /\ call.op = "_calculate_fundamental_score"
    /\ result = Pending
    /\ result' = [raised |-> FundamentalRaises(call.metrics),
                  value |-> IF FundamentalRaises(call.metrics) THEN 0
                            ELSE _calculate_fundamental_score(call.metrics)]
    /\ UNCHANGED <<cfg, call, history, pipeline, threads>>

CalcTechnical ==
    /\ call.op = "_calculate_technical_score"
    /\ result = Pending
    /\ result' = [raised |-> TechnicalRaises(call.metrics),
                  value |-> IF TechnicalRaises(call.metrics) THEN 0
                            ELSE _calculate_technical_score(call.metrics)]
    /\ UNCHANGED <<cfg, call, history, pipeline, threads>>

ScoreToDecision ==
    /\ call.op = "_score_to_decision"
    /\ result = Pending
    /\ result' = [decision |-> _score_to_decision(call.score, cfg)]
    /\ UNCHANGED <<cfg, call, history, pipeline, threads>>

GenerateSignal ==
    /\ call.op = "generate_signal"
    /\ result = Pending
    /\ result' = generate_signal(call.news_item, call.metrics, cfg)
    /\ history' = Append(history, [news_item |-> call.news_item,
                                   metrics |-> call.metrics,
                                   signal |-> result'.signal])
    /\ UNCHANGED <<cfg, call, pipeline, threads>>

(***************************************************************************)
(* SpecComponents: the three component scores on their own                 *)
(***************************************************************************)
InitComponents ==
    /\ \/ /\ cfg \in {Config(DefaultWeights, DefaultThresholds, hc) :
                          hc \in HighConfidenceThresholds}
          /\ call \in {SentimentCall(n) : n \in NewsItems}
       \/ /\ cfg = Config(DefaultWeights, DefaultThresholds, 80)
          /\ call \in {FundamentalCall(m) : m \in FundamentalInputs \cup {NoMetrics}}
                  \cup {TechnicalCall(m) : m \in TechnicalInputs \cup {NoMetrics}}
    /\ result = Pending
    /\ history = <<>>
    /\ pipeline = NoRun
    /\ threads = <<>>

NextComponents == CalcSentiment \/ CalcFundamental \/ CalcTechnical

SpecComponents == InitComponents /\ [][NextComponents]_vars

(***************************************************************************)
(* SpecDecision: _score_to_decision under every threshold configuration    *)
(***************************************************************************)
InitDecision ==
    /\ cfg \in {Config(DefaultWeights, t, 80) : t \in ThresholdConfigs}
    /\ call \in {DecisionCall(score) : score \in ScoreInputs}
    /\ result = Pending
    /\ history = <<>>
    /\ pipeline = NoRun
    /\ threads = <<>>

NextDecision == ScoreToDecision

SpecDecision == InitDecision /\ [][NextDecision]_vars

(***************************************************************************)
(* Spec: generate_signal over a wide range of news items and metrics       *)
(***************************************************************************)
SignalNews ==
    {NewsItem(p, cf, l) : p \in {None, -100, 90}, cf \in {None, 0, 95},
                          l \in SentimentLabel}

SignalMetrics ==
    {StockMetrics(peg, roe, eps, iv, price, rsi, hist, bands, dd) :
        peg \in {None, 0, 80}, roe \in {None, 2500}, eps \in {None, 600},
        iv \in {None, 0, 13000}, price \in {None, NaN, 0, 9200},
        rsi \in {None, NaN, 2500}, hist \in {None, 0, 10},
        bands \in {NoBands, <<10000, 10000, 10000>>, <<11000, 10000, 9000>>},
        dd \in {None, -3500}}
    \cup {NoMetrics}

Init ==
    /\ cfg = Config(DefaultWeights, DefaultThresholds, 80)
    /\ call \in {SignalCall(n, m) : n \in SignalNews, m \in SignalMetrics}
    /\ result = Pending
    /\ history = <<>>
    /\ pipeline = NoRun
    /\ threads = <<>>

Next == GenerateSignal

Spec == Init /\ [][Next]_vars

(***************************************************************************)
(* SpecConfig: generate_signal under every configuration                   *)
(***************************************************************************)
ConfigNews ==
    {NewsItem(p, cf, l) : p \in {None, -100, -50, 0, 50, 90}, cf \in {None, 95},
                          l \in {"NEUTRAL", "POSITIVE"}}

ConfigMetrics ==
    {StockMetrics(peg, None, eps, iv, 9200, rsi, hist, bands, None) :
        peg \in {None, 80}, eps \in {None, 0}, iv \in {None, 13000},
        rsi \in {None, 2500}, hist \in {None, -10},
        bands \in {NoBands, <<11000, 10000, 9000>>}}
    \cup {NoMetrics}

InitConfig ==
    /\ cfg \in {Config(w, t, 80) : w \in WeightConfigs, t \in ThresholdConfigs}
    /\ call \in {SignalCall(n, m) : n \in ConfigNews, m \in ConfigMetrics}
    /\ result = Pending
    /\ history = <<>>
    /\ pipeline = NoRun
    /\ threads = <<>>

NextConfig == GenerateSignal

SpecConfig == InitConfig /\ [][NextConfig]_vars

(***************************************************************************)
(* SpecRepeat: several calls, one after the other, on the same engine      *)
(***************************************************************************)
MaxCalls == 3

RepeatNews ==
    {NewsItem(p, 95, l) : p \in {None, 50, 90}, l \in {"NEGATIVE", "POSITIVE"}}

RepeatMetrics ==
    {NoMetrics,
     StockMetrics(80, 2500, 600, 13000, 10000, None, None, NoBands, None),
     StockMetrics(None, None, None, None, 9200, 2500, 10,
                  <<11000, 10000, 9000>>, -3500)}

\* the caller makes its next call
Invoke(news_item, metrics) ==
    /\ result # Pending
    /\ Len(history) < MaxCalls
    /\ call' = SignalCall(news_item, metrics)
    /\ result' = Pending
    /\ UNCHANGED <<cfg, history, pipeline, threads>>

InitRepeat ==
    /\ cfg = Config(DefaultWeights, DefaultThresholds, 80)
    /\ call \in {SignalCall(n, m) : n \in RepeatNews, m \in RepeatMetrics}
    /\ result = Pending
    /\ history = <<>>
    /\ pipeline = NoRun
    /\ threads = <<>>

NextRepeat ==
    \/ GenerateSignal
    \/ \E n \in RepeatNews, m \in RepeatMetrics : Invoke(n, m)

SpecRepeat == InitRepeat /\ [][NextRepeat]_vars

(***************************************************************************)
(* SpecIndicators: the operations of MetricsCalculator on their own.  The  *)
(* periods of the configuration are scaled to the bounded history so that  *)
(* a history can be shorter than, as long as and longer than a period.     *)
(***************************************************************************)
MaxBars == 4

IndicatorPeriods ==
    {[RSI_PERIOD |-> rsi, MACD_FAST |-> 2, MACD_SLOW |-> 3, MACD_SIGNAL |-> 2,
      BOLLINGER_PERIOD |-> bb, BOLLINGER_STD |-> 2] :
        rsi \in {2, 3}, bb \in {2, 3}}

Infos ==
    [pegRatio : {None, 0, 150, Bad}, returnOnEquity : {None, 0, 25, Bad},
     trailingEps : {None, 0, 600, Bad}, freeCashflow : {None, 0, 70000, Bad},
     sharesOutstanding : {None, 0, 1000}, earningsGrowth : {None, 0, 5}]

Bar(close) == [High |-> close + H(5), Low |-> close - H(5), Close |-> close]

Histories ==
    UNION {[1..n -> {Bar(close) : close \in {9000, 10000, 11000}}] :
              n \in 0..MaxBars}

ProviderAnswers ==
    {[raises |-> FALSE, info |-> info, hist |-> hist] :
        info \in {i \in Infos : /\ i.pegRatio \in {None, 150}
                                /\ i.returnOnEquity = 25
                                /\ i.freeCashflow = 70000
                                /\ i.sharesOutstanding = 1000
                                /\ i.earningsGrowth \in {None, 5}},
        hist \in Histories}
    \cup {[raises |-> TRUE, info |-> info, hist |-> <<>>] :
        info \in {i \in Infos : i.pegRatio = None /\ i.trailingEps = None}}

CalcFundamentals ==
    /\ call.op = "_calculate_fundamentals"
    /\ result = Pending
    /\ result' = [raised |-> FALSE, value |-> _calculate_fundamentals(call.info)]
    /\ UNCHANGED <<cfg, call, history, pipeline, threads>>

CalcRsi ==
    /\ call.op = "_calculate_rsi"
    /\ result = Pending
    /\ result' = [raised |-> FALSE,
                  value |-> _calculate_rsi(call.prices, call.period)]
    /\ UNCHANGED <<cfg, call, history, pipeline, threads>>

CalcTechnicals ==
    /\ call.op = "_calculate_technicals"
    /\ result = Pending
    /\ result' = [raised |-> FALSE,
                  value |-> _calculate_technicals(call.hist, cfg)]
    /\ UNCHANGED <<cfg, call, history, pipeline, threads>>

GetStockMetrics ==
    /\ call.op = "get_stock_metrics"
    /\ result = Pending
    /\ result' = [raised |-> FALSE, value |-> get_stock_metrics(call.answer, cfg)]
    /\ UNCHANGED <<cfg, call, history, pipeline, threads>>

InitIndicators ==
    /\ cfg \in {Config(DefaultWeights, DefaultThresholds, 80) @@ p :
                   p \in IndicatorPeriods}
    /\ call \in {[op |-> "_calculate_fundamentals", info |-> info] :
                    info \in Infos}
            \cup {[op |-> "_calculate_rsi",
                   prices |-> [i \in 1..Len(hist) |-> hist[i].Close],
                   period |-> cfg.RSI_PERIOD] : hist \in Histories}
            \cup {[op |-> "_calculate_technicals", hist |-> hist] :
                    hist \in Histories}
            \cup {[op |-> "get_stock_metrics", answer |-> answer] :
                    answer \in ProviderAnswers}
    /\ result = Pending
    /\ history = <<>>
    /\ pipeline = NoRun
    /\ threads = <<>>

NextIndicators ==
    CalcFundamentals \/ CalcRsi \/ CalcTechnicals \/ GetStockMetrics

SpecIndicators == InitIndicators /\ [][NextIndicators]_vars

(***************************************************************************)
(* SpecPipeline: AlgoTradingSystem.run from the analyzed news on.  The     *)
(* run is at `pc`; `i` is the number of the item in the loop, `answer`     *)
(* what the provider answered for it, `metrics` the loop's local.          *)
(***************************************************************************)
MaxItems == 2

PipelineNews ==
    {NewsItem(90, 95, "POSITIVE"), NewsItem(-90, 95, "NEGATIVE"),
     NewsItem(50, 50, "POSITIVE"), NewsItem(None, None, "NEUTRAL")}

\* the provider raises; an empty history; good fundamentals on a rising
\* history; poor fundamentals on a falling one
PipelineAnswers ==
    LET good == [pegRatio |-> 80, returnOnEquity |-> 25, trailingEps |-> 600,
                 freeCashflow |-> 70000, sharesOutstanding |-> 1000,
                 earningsGrowth |-> None]
        poor == [pegRatio |-> 350, returnOnEquity |-> 5, trailingEps |-> -100,
                 freeCashflow |-> None, sharesOutstanding |-> None,
                 earningsGrowth |-> 5]
    IN  {[raises |-> TRUE, info |-> good, hist |-> <<>>],
         [raises |-> FALSE, info |-> good, hist |-> <<>>],
         [raises |-> FALSE, info |-> good,
          hist |-> <<Bar(9000), Bar(10000), Bar(11000)>>],
         [raises |-> FALSE, info |-> poor,
          hist |-> <<Bar(11000), Bar(10000), Bar(9000)>>]}

\* step 3: alerts for the high-confidence news, or the early return on an
\* empty list
RunStart(popup_ok) ==
    /\ pipeline # NoRun
    /\ pipeline.pc = "start"
    /\ pipeline' =
         IF pipeline.analyzed_news = <<>>
         THEN [pipeline EXCEPT !.pc = "done"]
         ELSE [pipeline EXCEPT
                 !.notifications = notify_multiple_news(pipeline.analyzed_news,
                     cfg, send_notification(pipeline.enabled, popup_ok)),
                 !.i = 1,
                 !.pc = "metrics"]
    /\ UNCHANGED <<cfg, call, result, history, threads>>

\* metrics = self.metrics_calculator.get_stock_metrics(news_item.ticker)
RunMetrics(answer) ==
    /\ pipeline # NoRun
    /\ pipeline.pc = "metrics"
    /\ LET metrics == get_stock_metrics(answer, cfg)
       IN  pipeline' =
             IF metrics = Raised
             THEN [pipeline EXCEPT !.answer = answer, !.pc = "failed"]
             ELSE [pipeline EXCEPT !.answer = answer, !.metrics = metrics,
                                   !.pc = "signal"]
    /\ UNCHANGED <<cfg, call, result, history, threads>>

\* signal = self.decision_engine.generate_signal(news_item, metrics);
\* signals.append(signal)
RunSignal ==
    /\ pipeline # NoRun
    /\ pipeline.pc = "signal"
    /\ LET returned == generate_signal(pipeline.analyzed_news[pipeline.i],
                                       pipeline.metrics, cfg)
       IN  pipeline' =
             IF returned.raised
             THEN [pipeline EXCEPT !.pc = "failed"]
             ELSE [pipeline EXCEPT
                     !.signals = Append(pipeline.signals, returned.signal),
                     !.pc = "alert"]
    /\ UNCHANGED <<cfg, call, result, history, threads>>

\* the notification for a strong signal, then the next item or the save
RunAlert(popup_ok) ==
    /\ pipeline # NoRun
    /\ pipeline.pc = "alert"
    /\ LET signal == pipeline.signals[pipeline.i]
           sent == IF signal.decision \in {"STRONG_BUY", "STRONG_SELL"}
                   THEN notify_trading_signal(signal, pipeline.i,
                            send_notification(pipeline.enabled, popup_ok))
                   ELSE <<>>
       IN  pipeline' =
             [pipeline EXCEPT
                !.notifications = pipeline.notifications \o sent,
                !.i = IF pipeline.i < Len(pipeline.analyzed_news)
                      THEN pipeline.i + 1 ELSE pipeline.i,
                !.pc = IF pipeline.i < Len(pipeline.analyzed_news)
                       THEN "metrics" ELSE "save"]
    /\ UNCHANGED <<cfg, call, result, history, threads>>

\* step 5: self.storage_manager.save_signals(signals, ...)
RunSave ==
    /\ pipeline # NoRun
    /\ pipeline.pc = "save"
    /\ pipeline' = [pipeline EXCEPT !.saved = pipeline.signals, !.pc = "done"]
    /\ UNCHANGED <<cfg, call, result, history, threads>>

\* a run with the default weights or with the sentiment weight alone, on a
\* list of at most MaxItems analyzed items
InitPipeline ==
    /\ cfg \in {Config(w, DefaultThresholds, 80) @@ p :
                   w \in {DefaultWeights,
                          [SENTIMENT_WEIGHT |-> 100, FUNDAMENTAL_WEIGHT |-> 0,
                           TECHNICAL_WEIGHT |-> 0]},
                   p \in {q \in IndicatorPeriods :
                             q.RSI_PERIOD = 3 /\ q.BOLLINGER_PERIOD = 3}}
    /\ call = [op |-> "run"]
    /\ result = Pending
    /\ history = <<>> /\ threads = <<>>
    /\ pipeline \in {[pc |-> "start", enabled |-> enabled,
                      analyzed_news |-> news, i |-> 0, answer |-> Pending,
                      metrics |-> NoMetrics, signals |-> <<>>,
                      notifications |-> <<>>, saved |-> <<>>] :
                        enabled \in BOOLEAN,
                        news \in UNION {[1..n -> PipelineNews] :
                                           n \in 0..MaxItems}}

NextPipeline ==
    \/ \E popup_ok \in BOOLEAN : RunStart(popup_ok)
    \/ \E answer \in PipelineAnswers : RunMetrics(answer)
    \/ RunSignal
    \/ \E popup_ok \in BOOLEAN : RunAlert(popup_ok)
    \/ RunSave

SpecPipeline == InitPipeline /\ [][NextPipeline]_vars

(***************************************************************************)
(* SpecConcurrent: several calls of generate_signal in progress at once on *)
(* one engine.  threads[t] is the frame of call t: its arguments, its      *)
(* locals and the statement it is at; a step runs one statement of one     *)
(* call.                                                                   *)
(***************************************************************************)
MaxThreads == 2

ThreadCalls ==
    {[news_item |-> NewsItem(90, 95, "POSITIVE"), metrics |-> NoMetrics],
     [news_item |-> NewsItem(-90, 95, "NEGATIVE"), metrics |-> NoMetrics],
     [news_item |-> NewsItem(50, 50, "POSITIVE"),
      metrics |-> StockMetrics(80, 2500, 600, 13000, 10000, None, None,
                               NoBands, None)],
     [news_item |-> NewsItem(None, None, "NEUTRAL"),
      metrics |-> StockMetrics(None, None, None, None, 9200, 2500, 10,
                               <<11000, 10000, 9000>>, -3500)]}

\* every call keeping the local in one slot of the engine object
StoreOnEngine(frames, t, name, value) ==
    [u \in DOMAIN frames |-> [frames[u] EXCEPT ![name] = value]]

\* name = value, an assignment to a local of call t
Store(frames, t, name, value) ==
    [frames EXCEPT ![t] = [@ EXCEPT ![name] = value]]

\* call t runs the statement it is at and moves to the next one, or leaves
\* with the exception the statement raises
ThreadStep(t) ==
    LET f == threads[t]
        to(pc) == [threads EXCEPT ![t].pc = pc]
    IN  /\ f.pc \notin {"returned", "raised"}
        /\ threads' =
             CASE f.pc = "sentiment" ->
                    Store(to("fundamental"), t, "sentiment_score",
                          _calculate_sentiment_score(f.news_item, cfg))
               [] f.pc = "fundamental" ->
                    IF FundamentalRaises(f.metrics) THEN to("raised")
                    ELSE Store(to("technical"), t, "fundamental_score",
                               _calculate_fundamental_score(f.metrics))
               [] f.pc = "technical" ->
                    IF TechnicalRaises(f.metrics) THEN to("raised")
                    ELSE Store(to("combine"), t, "technical_score",
                               _calculate_technical_score(f.metrics))
               [] f.pc = "combine" ->
                    Store(to("decide"), t, "combined_score",
                          CombinedScore(f.sentiment_score, f.fundamental_score,
                                        f.technical_score, cfg))
               [] f.pc = "decide" ->
                    Store(to("reason"), t, "decision",
                          _score_to_decision(f.combined_score, cfg))
               [] f.pc = "reason" ->
                    IF ReasoningRaises(f.news_item, f.metrics) THEN to("raised")
                    ELSE Store(to("create"), t, "reasoning",
                               _generate_reasoning(f.news_item, f.metrics,
                                                   f.combined_score))
               [] f.pc = "create" ->
                    Store(to("returned"), t, "signal",
                          TradingSignal(f.news_item, f.metrics, f.decision,
                                        f.combined_score, f.reasoning))
        /\ UNCHANGED <<cfg, call, result, history, pipeline>>

\* every call has been entered and none has run a statement
InitConcurrent ==
    /\ cfg = Config(DefaultWeights, DefaultThresholds, 80)
    /\ call \in {[op |-> "concurrent", args |-> args] :
                    args \in [1..MaxThreads -> ThreadCalls]}
    /\ result = Pending
    /\ history = <<>> /\ pipeline = NoRun
    /\ threads = [t \in 1..MaxThreads |->
                    [pc |-> "sentiment", news_item |-> call.args[t].news_item,
                     metrics |-> call.args[t].metrics,
                     sentiment_score |-> None, fundamental_score |-> None,
                     technical_score |-> None, combined_score |-> None,
                     decision |-> "", reasoning |-> <<>>,
                     signal |-> NoSignal]]

NextConcurrent == \E t \in 1..MaxThreads : ThreadStep(t)

SpecConcurrent == InitConcurrent /\ [][NextConcurrent]_vars

(***************************************************************************)
(* SpecTagOrder: _score_to_decision called for one score after the other   *)
(* under one threshold configuration, sell = buy = 0 included; `history`   *)
(* logs the score and the tag of the calls that returned before the        *)
(* current one.                                                            *)
(***************************************************************************)
MaxDecisions == 2

\* the caller takes the tag returned and calls with its next score
DecideNext(score) ==
    /\ call.op = "_score_to_decision"
    /\ result # Pending
    /\ Len(history) + 1 < MaxDecisions
    /\ history' = Append(history, [score |-> call.score,
                                   decision |-> result.decision])
    /\ call' = DecisionCall(score)
    /\ result' = Pending
    /\ UNCHANGED <<cfg, pipeline, threads>>

\* scores from -0.7 to 0.7 in steps of 0.1, on and between the thresholds
InitTagOrder ==
    /\ cfg \in {Config(DefaultWeights, t, 80) :
                   t \in ThresholdConfigs
                         \cup {[DefaultThresholds EXCEPT !.BUY_THRESHOLD = 0,
                                                         !.SELL_THRESHOLD = 0]}}
    /\ call \in {DecisionCall(k * 10 * One) : k \in -7..7}
    /\ result = Pending
    /\ history = <<>>
    /\ pipeline = NoRun
    /\ threads = <<>>

NextTagOrder ==
    \/ ScoreToDecision
    \/ \E k \in -7..7 : DecideNext(k * 10 * One)

SpecTagOrder == InitTagOrder /\ [][NextTagOrder]_vars

(***************************************************************************)
(* Properties                                                              *)
(***************************************************************************)
Returned(op) == call.op = op /\ result # Pending

\* the ordered guard chain on thresholds sb > b > s > ss of the combined score
ChainTag(score, sb, b, s, ss) ==
    CASE score >= sb -> "STRONG_BUY"
      [] score < sb /\ score >= b -> "BUY"
      [] score < sb /\ score < b /\ score <= ss -> "STRONG_SELL"
      [] score < sb /\ score < b /\ score > ss /\ score <= s -> "SELL"
      [] OTHER -> "HOLD"

\* C1: whatever the news item or the metrics record, each of the three
\* component scores is returned and lies in [-1, 1].
C1_ComponentScoresInRange ==
    \A op \in {"_calculate_sentiment_score", "_calculate_fundamental_score",
               "_calculate_technical_score"} :
        Returned(op) =>
            /\ ~result.raised
            /\ -One <= result.value
            /\ result.value <= One

\* a polarity whose boosted value exceeds 1.0 is returned as exactly 1.0
C1_Witness ==
    /\ Returned("_calculate_sentiment_score")
    /\ call.news_item.sentiment_score # None
    /\ BoostedScore(call.news_item, cfg) > One
    /\ result.value = One

\* C3: _score_to_decision maps every score to exactly one of the five tags
\* by the ordered chain STRONG_BUY, BUY, STRONG_SELL, SELL, HOLD, and a score
\* equal to a threshold takes that threshold's tag.
C3_OrderedGuardChain ==
    Returned("_score_to_decision") =>
        /\ result.decision \in DecisionTag
        /\ result.decision =
              ChainTag(call.score, T(cfg.STRONG_BUY_THRESHOLD),
                       T(cfg.BUY_THRESHOLD), T(cfg.SELL_THRESHOLD),
                       T(cfg.STRONG_SELL_THRESHOLD))
        /\ call.score = T(cfg.STRONG_BUY_THRESHOLD) => result.decision = "STRONG_BUY"
        /\ call.score = T(cfg.BUY_THRESHOLD) => result.decision = "BUY"
        /\ call.score = T(cfg.SELL_THRESHOLD) => result.decision = "SELL"
        /\ call.score = T(cfg.STRONG_SELL_THRESHOLD) =>
              result.decision = "STRONG_SELL"

\* a score exactly on the BUY threshold is tagged BUY
C3_Witness ==
    /\ Returned("_score_to_decision")
    /\ call.score = T(cfg.BUY_THRESHOLD)
    /\ result.decision = "BUY"

\* C7: the sentiment score is 0 without a polarity; otherwise the polarity,
\* times 1.2 exactly when a confidence is present and strictly above the
\* high-confidence threshold, clamped to [-1, 1]; polarity 0.9 with
\* confidence 0.95 gives 1.0.
C7_SentimentScore ==
    Returned("_calculate_sentiment_score") =>
        LET polarity == call.news_item.sentiment_score
            confidence == call.news_item.sentiment_confidence
            boosted == /\ confidence # None
                       /\ confidence > cfg.SENTIMENT_HIGH_CONFIDENCE_THRESHOLD
            \* polarity (hundredths) times 1.0 or 1.2, in score units
            raw == IF boosted THEN polarity * 144 ELSE polarity * 120
        IN  /\ polarity = None => result.value = 0
            /\ polarity # None /\ raw > One => result.value = One
            /\ polarity # None /\ raw < -One => result.value = -One
            /\ polarity # None /\ raw <= One /\ raw >= -One => result.value = raw
            /\ (polarity = 90 /\ confidence = 95
                /\ cfg.SENTIMENT_HIGH_CONFIDENCE_THRESHOLD < 95) =>
                  result.value = One

\* polarity 0.9 at confidence 0.95, above the threshold: 1.08 clamped to 1.0
C7_Witness ==
    /\ Returned("_calculate_sentiment_score")
    /\ call.news_item.sentiment_score = 90
    /\ call.news_item.sentiment_confidence = 95
    /\ cfg.SENTIMENT_HIGH_CONFIDENCE_THRESHOLD = 80
    /\ result.value = One

\* C8: the fundamental score is the sum of the contributions of the checks
\* whose fields are present (PEG, ROE, EPS, and the value ratio only with an
\* intrinsic value and a positive price) divided by their number, 0 when
\* there is none; PEG=0.8, ROE=25, EPS=6, ratio 1.3 give 0.425 and PEG=0.8
\* alone gives 0.5.
C8_FundamentalAverage ==
    Returned("_calculate_fundamental_score") =>
        LET m == call.metrics
            present == IF m = NoMetrics THEN {}
                       ELSE {k \in {"peg", "roe", "eps", "ratio"} :
                              \/ k = "peg" /\ m.peg_ratio # None
                              \/ k = "roe" /\ m.roe # None
                              \/ k = "eps" /\ m.eps # None
                              \/ /\ k = "ratio"
                                 /\ m.intrinsic_value # None
                                 /\ m.current_price # None
                                 /\ GT(m.current_price, 0)}
            contribution(k) == IF k \notin present THEN 0
                               ELSE IF k = "peg" THEN PegDelta(m)
                               ELSE IF k = "roe" THEN RoeDelta(m)
                               ELSE IF k = "eps" THEN EpsDelta(m)
                               ELSE ValueRatioDelta(m)
            sum == contribution("peg") + contribution("roe")
                   + contribution("eps") + contribution("ratio")
        IN  /\ ~result.raised
            /\ present = {} => result.value = 0
            /\ present # {} => result.value * Cardinality(present) = sum
            /\ m = StockMetrics(80, 2500, 600, 13000, 10000, None, None,
                                NoBands, None)
                  => 1000 * result.value = 425 * One
            /\ m = StockMetrics(80, None, None, None, None, None, None,
                                NoBands, None)
                  => 10 * result.value = 5 * One

\* PEG=0.8, ROE=25, EPS=6 and intrinsic value 130 at price 100: 0.425
C8_Witness ==
    /\ Returned("_calculate_fundamental_score")
    /\ call.metrics = StockMetrics(80, 2500, 600, 13000, 10000, None, None,
                                   NoBands, None)
    /\ 1000 * result.value = 425 * One

\* C9: the technical score is the average, over the checks whose inputs are
\* present, of: RSI <30 +0.5, [30,40) +0.2, >70 -0.5, (60,70] -0.2, else 0;
\* MACD histogram >0 +0.3, <=0 -0.3; the Bollinger position per its bands;
\* drawdown < -30 -0.3, [-30,-20) -0.1, else 0; 0 with no check present.
\* RSI=25, histogram=+0.1, position 0.1, drawdown -35 give 0.225.  (The
\* MACD bands are stated for a histogram that is a number.)
C9_TechnicalAverage ==
    (Returned("_calculate_technical_score")
     /\ (call.metrics = NoMetrics \/ call.metrics.macd_histogram # NaN)) =>
        LET m == call.metrics
            rsi == IF LT(m.rsi, 3000) THEN 5
                   ELSE IF GE(m.rsi, 3000) /\ LT(m.rsi, 4000) THEN 2
                   ELSE IF GT(m.rsi, 7000) THEN -5
                   ELSE IF GT(m.rsi, 6000) /\ LE(m.rsi, 7000) THEN -2
                   ELSE 0
            macd == IF m.macd_histogram > 0 THEN 3 ELSE -3
            drawdown == IF LT(m.max_drawdown, -3000) THEN -3
                        ELSE IF GE(m.max_drawdown, -3000)
                                /\ LT(m.max_drawdown, -2000) THEN -1
                        ELSE 0
            tenths == (IF m.rsi # None THEN rsi ELSE 0)
                      + (IF m.macd_histogram # None THEN macd ELSE 0)
                      + (IF m.max_drawdown # None THEN drawdown ELSE 0)
            bollinger == IF BollingerChecked(m) THEN BollingerDelta(m) ELSE 0
            n == (IF m.rsi # None THEN 1 ELSE 0)
                 + (IF m.macd_histogram # None THEN 1 ELSE 0)
                 + (IF BollingerChecked(m) THEN 1 ELSE 0)
                 + (IF m.max_drawdown # None THEN 1 ELSE 0)
        IN  /\ ~result.raised
            /\ m = NoMetrics => result.value = 0
            /\ m # NoMetrics /\ n = 0 => result.value = 0
            /\ m # NoMetrics /\ n > 0 =>
                  10 * n * result.value = tenths * One + 10 * bollinger
            /\ m = StockMetrics(None, None, None, None, 9200, 2500, 10,
                                <<11000, 10000, 9000>>, -3500)
                  => 1000 * result.value = 225 * One

\* RSI=25, histogram=+0.1, price a tenth of the way up the band, drawdown -35
C9_Witness ==
    /\ Returned("_calculate_technical_score")
    /\ call.metrics = StockMetrics(None, None, None, None, 9200, 2500, 10,
                                   <<11000, 10000, 9000>>, -3500)
    /\ 1000 * result.value = 225 * One

\* C2: with three non-negative weights that sum to 1.0, the decision_score
\* of the signal generate_signal returns lies in [-1, 1].
C2_CombinedScoreInRange ==
    (/\ Returned("generate_signal")
     /\ cfg.SENTIMENT_WEIGHT + cfg.FUNDAMENTAL_WEIGHT + cfg.TECHNICAL_WEIGHT = H(1))
    =>  /\ ~result.raised
        /\ -(One * H(1)) <= result.signal.decision_score
        /\ result.signal.decision_score <= One * H(1)

\* all the weight on a sentiment score clamped to 1.0: the bound is met
C2_Witness ==
    /\ Returned("generate_signal")
    /\ cfg.SENTIMENT_WEIGHT = H(1)
    /\ call.news_item.sentiment_score # None
    /\ BoostedScore(call.news_item, cfg) > One
    /\ call.metrics # NoMetrics
    /\ result.fundamental_score > 0
    /\ result.signal.decision_score = One * H(1)

\* C4: without metrics the fundamental and the technical score are 0, the
\* combined score is sentiment_score * sentiment_weight, and the tag is the
\* one the thresholds give that product.
C4_SentimentOnly ==
    (Returned("generate_signal") /\ call.metrics = NoMetrics) =>
        /\ ~result.raised
        /\ result.fundamental_score = 0
        /\ result.technical_score = 0
        /\ result.signal.decision_score =
              result.sentiment_score * cfg.SENTIMENT_WEIGHT
        /\ result.signal.decision =
              ChainTag(result.sentiment_score * cfg.SENTIMENT_WEIGHT,
                       T(cfg.STRONG_BUY_THRESHOLD), T(cfg.BUY_THRESHOLD),
                       T(cfg.SELL_THRESHOLD), T(cfg.STRONG_SELL_THRESHOLD))

\* no metrics, a non-zero sentiment score, and a tag other than HOLD
C4_Witness ==
    /\ Returned("generate_signal")
    /\ call.metrics = NoMetrics
    /\ result.sentiment_score < 0
    /\ cfg.SENTIMENT_WEIGHT = 40
    /\ result.signal.decision = "SELL"

\* C5 as stated: under every configuration with
\* strong_sell < sell <= 0 <= buy < strong_buy, a call with no polarity and
\* no metrics has combined score 0 and tag HOLD.
C5_MissingDataIsHold ==
    (/\ Returned("generate_signal")
     /\ call.news_item.sentiment_score = None
     /\ call.metrics = NoMetrics
     /\ cfg.STRONG_SELL_THRESHOLD < cfg.SELL_THRESHOLD
     /\ cfg.SELL_THRESHOLD <= 0
     /\ 0 <= cfg.BUY_THRESHOLD
     /\ cfg.BUY_THRESHOLD < cfg.STRONG_BUY_THRESHOLD)
    =>  /\ ~result.raised
        /\ result.signal.decision_score = 0
        /\ result.signal.decision = "HOLD"

\* C5 amended: under every configuration with
\* strong_sell < sell < 0 < buy < strong_buy, a call with no polarity and no
\* metrics has combined score 0 and tag HOLD.
C5_MissingDataIsHoldStrict ==
    (/\ Returned("generate_signal")
     /\ call.news_item.sentiment_score = None
     /\ call.metrics = NoMetrics
     /\ cfg.STRONG_SELL_THRESHOLD < cfg.SELL_THRESHOLD
     /\ cfg.SELL_THRESHOLD < 0
     /\ 0 < cfg.BUY_THRESHOLD
     /\ cfg.BUY_THRESHOLD < cfg.STRONG_BUY_THRESHOLD)
    =>  /\ ~result.raised
        /\ result.signal.decision_score = 0
        /\ result.signal.decision = "HOLD"

\* no polarity, no metrics, thresholds strictly around 0: HOLD at score 0
C5_Witness ==
    /\ Returned("generate_signal")
    /\ call.news_item.sentiment_score = None
    /\ call.metrics = NoMetrics
    /\ cfg.SELL_THRESHOLD < 0
    /\ 0 < cfg.BUY_THRESHOLD
    /\ result.signal.decision_score = 0
    /\ result.signal.decision = "HOLD"

\* C6: generate_signal never raises for missing data: with the metrics
\* absent, or present with any of its fields absent or zero, it returns a
\* TradingSignal with a decision tag, a score and a reasoning string.
C6_NeverRaises ==
    Returned("generate_signal") =>
        /\ ~result.raised
        /\ result.signal # NoSignal
        /\ result.signal.decision \in DecisionTag
        /\ IsNum(result.signal.decision_score)
        /\ Len(result.signal.reasoning) >= 2

\* a signal is returned for a zero price beside an intrinsic value and a
\* zero-width band, and a POSITIVE label without a confidence
C6_Witness ==
    /\ Returned("generate_signal")
    /\ call.metrics # NoMetrics
    /\ call.metrics.current_price = 0
    /\ call.metrics.intrinsic_value = 13000
    /\ call.metrics.rsi = None
    /\ call.metrics.bollinger_upper = call.metrics.bollinger_lower
    /\ call.metrics.bollinger_upper # None
    /\ call.news_item.sentiment_label = "POSITIVE"
    /\ call.news_item.sentiment_confidence = None
    /\ result.signal # NoSignal

Supplied(x) == x # None /\ x # Bad /\ x # 0

\* C11: the sub-computations of the Indicator Module are independent: when
\* computing one field fails (a fact that cannot be converted, a failing
\* current-price step), every other field whose own inputs are sufficient
\* is still computed and present in the result
C11_IndependentFields ==
    /\ Returned("_calculate_fundamentals") =>
        LET info == call.info
            d == result.value
        IN  /\ Supplied(info.pegRatio) => Get(d, "peg_ratio") = info.pegRatio
            /\ Supplied(info.returnOnEquity) =>
                   Get(d, "roe") = info.returnOnEquity * 100
            /\ Supplied(info.trailingEps) => Get(d, "eps") = info.trailingEps
            /\ Supplied(info.freeCashflow) =>
                   Get(d, "free_cash_flow") = info.freeCashflow
            /\ Supplied(info.freeCashflow) /\ Supplied(info.sharesOutstanding) =>
                   Get(d, "dcf_value") # None
            /\ Supplied(info.trailingEps) /\ info.earningsGrowth # Bad =>
                   Get(d, "intrinsic_value") # None
    /\ Returned("_calculate_technicals") /\ call.hist # <<>> =>
        LET d == result.value
        IN  /\ Get(d, "current_price") = call.hist[Len(call.hist)].Close
            /\ Get(d, "macd_histogram") # None
            /\ Get(d, "max_drawdown") # None
            /\ "fibonacci_levels" \in DOMAIN d

\* C12: with fewer bars than the RSI period, or none, _calculate_rsi
\* reports the RSI as unavailable, so the rsi of the metrics record is
\* absent and the engine leaves the RSI check out of its count
C12_ShortHistoryRsiAbsent ==
    /\ Returned("_calculate_rsi") /\ Len(call.prices) < call.period =>
        result.value = None
    /\ Returned("get_stock_metrics") /\ ~call.answer.raises
       /\ call.answer.hist # <<>> /\ Len(call.answer.hist) < cfg.RSI_PERIOD =>
        /\ result.value.rsi = None
        /\ ~RsiChecked(result.value)

\* C13: whenever _calculate_rsi returns a value from at least `period`
\* bars, the value lies in [0, 100], also when the average loss or the
\* average gain over the window is zero
C13_RsiInRange ==
    Returned("_calculate_rsi") /\ Len(call.prices) >= call.period =>
        /\ result.value # None
        /\ result.value # NaN
        /\ 0 <= result.value
        /\ result.value <= H(100)

\* C14: a fundamental fact supplied as 0 (PEG, ROE, trailing EPS, free cash
\* flow) is recorded present with value 0, and an EPS of 0 reaches the
\* engine's EPS check
C14_ZeroIsPresent ==
    /\ Returned("_calculate_fundamentals")
       /\ (\A k \in DOMAIN call.info : call.info[k] # Bad) =>
        LET info == call.info
            d == result.value
        IN  /\ info.pegRatio = 0 => Get(d, "peg_ratio") = 0
            /\ info.returnOnEquity = 0 => Get(d, "roe") = 0
            /\ info.trailingEps = 0 => Get(d, "eps") = 0
            /\ info.freeCashflow = 0 => Get(d, "free_cash_flow") = 0
    /\ Returned("get_stock_metrics") /\ ~call.answer.raises
       /\ call.answer.hist # <<>> /\ call.answer.info.trailingEps = 0 =>
        /\ result.value.eps = 0
        /\ EpsChecked(result.value)

\* the clauses _generate_reasoning can add for sentiment, fundamentals and
\* technicals
ReasonClauses ==
    {"Positive news sentiment (% confidence)",
     "Negative news sentiment (% confidence)",
     "Strong PEG ratio ()", "Good ROE (%)",
     "Undervalued (% of intrinsic value)", "Overvalued (% of intrinsic value)",
     "Oversold RSI ()", "Overbought RSI ()", "Bullish MACD", "Bearish MACD"}

\* C15: the reasoning holds the generic clause exactly when no sentiment,
\* fundamental or technical clause fired; it always ends with the
\* combined-score suffix; with a NEUTRAL label and no metrics it is exactly
\* the generic clause followed by the suffix
C15_GenericClause ==
    Returned("generate_signal") /\ ~result.raised =>
        LET reasoning == result.signal.reasoning
            n == Len(reasoning)
            suffix == Piece(" | Combined score: ",
                            FormatScore(result.signal.decision_score))
            generic == \E i \in 1..n : reasoning[i] = GenericClause
            fired == \E i \in 1..n : reasoning[i].text \in ReasonClauses
        IN  /\ n >= 2
            /\ reasoning[n] = suffix
            /\ \A i \in 1..(n - 1) : reasoning[i].text # suffix.text
            /\ generic <=> ~fired
            /\ call.news_item.sentiment_label = "NEUTRAL"
               /\ call.metrics = NoMetrics =>
                   reasoning = <<GenericClause, suffix>>

\* a NEUTRAL item without metrics is explained by the generic clause alone,
\* and a NEUTRAL item whose metrics fire a clause is not
C15_Witness ==
    /\ Returned("generate_signal")
    /\ call.news_item.sentiment_label = "NEUTRAL"
    /\ call.metrics = NoMetrics
    /\ result.signal.reasoning =
           <<GenericClause, Piece(" | Combined score: ", 0)>>

\* the bands of C19 in which a present factor contributes nothing
PegZeroBand(m) == GE(m.peg_ratio, 200) /\ LE(m.peg_ratio, 300)
RoeZeroBand(m) == GE(m.roe, 1000) /\ LE(m.roe, 1500)
RsiZeroBand(m) == GE(m.rsi, 4000) /\ LE(m.rsi, 6000)
DrawdownZeroBand(m) == GE(m.max_drawdown, -2000)
BollingerZeroBand(m) ==
    /\ IsNum(m.current_price) /\ IsNum(m.bollinger_upper)
    /\ IsNum(m.bollinger_lower) /\ m.bollinger_middle # None
    /\ m.bollinger_upper > m.bollinger_lower
    /\ 100 * (m.current_price - m.bollinger_lower)
           >= 40 * (m.bollinger_upper - m.bollinger_lower)
    /\ 100 * (m.current_price - m.bollinger_lower)
           <= 60 * (m.bollinger_upper - m.bollinger_lower)

\* C19: a factor that is present but in its zero band still counts: a PEG
\* in [2,3], an ROE in [10,15], an RSI in [40,60], a Bollinger position in
\* [0.4,0.6] and a drawdown >= -20 add 0 to the sum and 1 to the count, so
\* they pull the average toward zero (PEG=2.5 with EPS=6 gives 0.15)
C19_ZeroBandCounts ==
    /\ (Returned("_calculate_fundamental_score") /\ ~result.raised
        /\ call.metrics # NoMetrics
        /\ (PegZeroBand(call.metrics) \/ RoeZeroBand(call.metrics))) =>
        LET m == call.metrics
            sum == (IF m.peg_ratio # None /\ ~PegZeroBand(m)
                    THEN PegDelta(m) ELSE 0)
                   + (IF m.roe # None /\ ~RoeZeroBand(m)
                      THEN RoeDelta(m) ELSE 0)
                   + (IF m.eps # None THEN EpsDelta(m) ELSE 0)
                   + (IF ValueRatioChecked(m) THEN ValueRatioDelta(m) ELSE 0)
            n == (IF m.peg_ratio # None THEN 1 ELSE 0)
                 + (IF m.roe # None THEN 1 ELSE 0)
                 + (IF m.eps # None THEN 1 ELSE 0)
                 + (IF ValueRatioChecked(m) THEN 1 ELSE 0)
        IN  /\ n * result.value = sum
            /\ (m.peg_ratio = 250 /\ m.eps = 600 /\ m.roe = None
                /\ m.intrinsic_value = None) => 100 * result.value = 15 * One
    /\ (Returned("_calculate_technical_score") /\ ~result.raised
        /\ call.metrics # NoMetrics
        /\ (RsiZeroBand(call.metrics) \/ BollingerZeroBand(call.metrics)
            \/ DrawdownZeroBand(call.metrics))) =>
        LET m == call.metrics
            sum == (IF m.rsi # None /\ ~RsiZeroBand(m) THEN RsiDelta(m) ELSE 0)
                   + (IF m.macd_histogram # None THEN MacdDelta(m) ELSE 0)
                   + (IF BollingerChecked(m) /\ ~BollingerZeroBand(m)
                      THEN BollingerDelta(m) ELSE 0)
                   + (IF m.max_drawdown # None /\ ~DrawdownZeroBand(m)
                      THEN DrawdownDelta(m) ELSE 0)
            n == (IF m.rsi # None THEN 1 ELSE 0)
                 + (IF m.macd_histogram # None THEN 1 ELSE 0)
                 + (IF BollingerChecked(m) THEN 1 ELSE 0)
                 + (IF m.max_drawdown # None THEN 1 ELSE 0)
        IN  n * result.value = sum

\* PEG = 2.5 beside EPS = 6 halves the EPS contribution
C19_Witness ==
    /\ Returned("_calculate_fundamental_score")
    /\ call.metrics # NoMetrics
    /\ call.metrics.peg_ratio = 250
    /\ call.metrics.eps = 600
    /\ call.metrics.roe = None
    /\ call.metrics.intrinsic_value = None
    /\ 100 * result.value = 15 * One

\* C20: the Bollinger position (price - lower) / (upper - lower) takes part
\* only when the band range is strictly positive: < 0.2 gives +0.4,
\* [0.2, 0.4) +0.2, > 0.8 -0.4, (0.6, 0.8] -0.2, else 0; a position of
\* exactly 0.2 gives +0.2 and of exactly 0.8 gives -0.2; a zero or negative
\* range adds nothing to the sum or the count
C20_BollingerBands ==
    (Returned("_calculate_technical_score") /\ call.metrics # NoMetrics
     /\ IsNum(call.metrics.current_price) /\ IsNum(call.metrics.bollinger_upper)
     /\ IsNum(call.metrics.bollinger_lower)
     /\ call.metrics.bollinger_middle # None) =>
        LET m == call.metrics
            band_range == m.bollinger_upper - m.bollinger_lower
            off == m.current_price - m.bollinger_lower
            tenths == IF 100 * off < 20 * band_range THEN 4
                      ELSE IF 100 * off < 40 * band_range THEN 2
                      ELSE IF 100 * off > 80 * band_range THEN -4
                      ELSE IF 100 * off > 60 * band_range THEN -2
                      ELSE 0
            others == (IF m.rsi # None THEN RsiDelta(m) ELSE 0)
                      + (IF m.macd_histogram # None THEN MacdDelta(m) ELSE 0)
                      + (IF m.max_drawdown # None THEN DrawdownDelta(m) ELSE 0)
            n == (IF m.rsi # None THEN 1 ELSE 0)
                 + (IF m.macd_histogram # None THEN 1 ELSE 0)
                 + (IF m.max_drawdown # None THEN 1 ELSE 0)
        IN  /\ ~result.raised
            /\ band_range > 0 =>
                   10 * (n + 1) * result.value = 10 * others + tenths * One
            /\ band_range <= 0 /\ n > 0 => n * result.value = others
            /\ band_range <= 0 /\ n = 0 => result.value = 0
            /\ (band_range > 0 /\ 100 * off = 20 * band_range /\ n = 0) =>
                   10 * result.value = 2 * One
            /\ (band_range > 0 /\ 100 * off = 80 * band_range /\ n = 0) =>
                   10 * result.value = -2 * One

\* a price exactly a fifth of the way up the band scores +0.2
C20_Witness ==
    /\ Returned("_calculate_technical_score")
    /\ call.metrics = StockMetrics(None, None, None, None, 9400, None, None,
                                   <<11000, 10000, 9000>>, None)
    /\ 10 * result.value = 2 * One

\* the trading-signal notifications sent so far in the run
Alerts == SelectSeq(pipeline.notifications,
                    LAMBDA n : n.kind = "trading_signal")

\* the numbers of the items processed so far whose signal has a STRONG tag
StrongItems ==
    {j \in 1..Len(pipeline.signals) :
        pipeline.signals[j].decision \in {"STRONG_BUY", "STRONG_SELL"}}

\* C16: in the pipeline run a trading-signal notification is sent for a
\* signal exactly when its tag is STRONG_BUY or STRONG_SELL: every
\* notification is for a STRONG signal already generated, the notification
\* of an item is there before the next item is processed, none is sent
\* twice, and after the loop their number is the number of STRONG signals
C16_AlertIffStrong ==
    /\ \A k \in 1..Len(Alerts) :
        /\ Alerts[k].item \in StrongItems
        /\ Alerts[k].decision = pipeline.signals[Alerts[k].item].decision
        /\ \A l \in 1..Len(Alerts) : k < l => Alerts[k].item < Alerts[l].item
    /\ pipeline.pc \in {"metrics", "signal", "save", "done"} =>
        /\ \A j \in StrongItems : \E k \in 1..Len(Alerts) : Alerts[k].item = j
        /\ Len(Alerts) = Cardinality(StrongItems)
    /\ pipeline.pc = "alert" =>
        \A j \in StrongItems :
            j < Len(pipeline.signals) <=>
                \E k \in 1..Len(Alerts) : Alerts[k].item = j

\* a finished run over a STRONG_BUY item and a HOLD item sent one alert
C16_Witness ==
    /\ pipeline.pc = "done"
    /\ Len(pipeline.signals) = 2
    /\ pipeline.signals[1].decision = "STRONG_BUY"
    /\ pipeline.signals[2].decision \in {"BUY", "HOLD", "SELL"}
    /\ Len(Alerts) = 1
    /\ Alerts[1].item = 1

\* C17: when the provider has no price history, or fails, get_stock_metrics
\* gives no metrics record and the engine runs on the sentiment alone; the
\* run produces exactly one signal per analyzed news item, in input order,
\* and a metrics failure never skips that item or a later one
C17_OneSignalPerItem ==
    LET p == pipeline
    IN  /\ p.pc # "failed"
        /\ Len(p.signals) <= Len(p.analyzed_news)
        /\ \A j \in 1..Len(p.signals) :
            /\ p.signals[j].news_item = p.analyzed_news[j]
            /\ p.signals[j].metrics = NoMetrics =>
                /\ p.signals[j].decision_score =
                       cfg.SENTIMENT_WEIGHT
                       * _calculate_sentiment_score(p.analyzed_news[j], cfg)
                /\ p.signals[j].decision =
                       _score_to_decision(p.signals[j].decision_score, cfg)
        /\ p.pc \in {"metrics", "signal"} => Len(p.signals) = p.i - 1
        /\ p.pc = "signal" /\ (p.answer.raises \/ p.answer.hist = <<>>) =>
               p.metrics = NoMetrics
        /\ p.pc = "alert" => Len(p.signals) = p.i
        /\ p.pc \in {"save", "done"} => Len(p.signals) = Len(p.analyzed_news)
        /\ p.pc = "done" => p.saved = p.signals

\* a finished run whose first item had no metrics and whose second had
C17_Witness ==
    /\ pipeline.pc = "done"
    /\ Len(pipeline.analyzed_news) = 2
    /\ Len(pipeline.signals) = 2
    /\ pipeline.signals[1].metrics = NoMetrics
    /\ pipeline.signals[2].metrics # NoMetrics
    /\ pipeline.saved = pipeline.signals

\* call t has ended as generate_signal on its own arguments ends
EndsAsAlone(t) ==
    LET alone == generate_signal(call.args[t].news_item, call.args[t].metrics,
                                 cfg)
    IN  /\ threads[t].pc = "returned" =>
            ~alone.raised /\ threads[t].signal = alone.signal
        /\ threads[t].pc = "raised" => alone.raised

\* C18: concurrent calls of generate_signal on one engine do not
\* interfere: under every interleaving of their statements a step of one
\* call changes no frame but its own, the configuration and the arguments
\* stay as they were, and each call returns the signal it returns when run
\* alone
C18_NoInterference ==
    [][/\ cfg' = cfg
       /\ \A t \in 1..MaxThreads :
            /\ threads'[t].news_item = call.args[t].news_item
            /\ threads'[t].metrics = call.args[t].metrics
            /\ EndsAsAlone(t)'
       /\ \A t, u \in 1..MaxThreads :
            (threads'[t] # threads[t] /\ threads'[u] # threads[u]) => t = u
      ]_vars

\* the first call has returned its signal while the second, made with
\* other arguments, is between its statements
C18_Witness ==
    /\ threads # <<>>
    /\ threads[1].pc = "returned"
    /\ threads[2].pc = "combine"
    /\ call.args[1] # call.args[2]
    /\ threads[1].signal.decision = "BUY"
    /\ threads[2].sentiment_score = -One

\* C21: the clauses of the reasoning are triggered by the conditions of the
\* scoring checks: for every metrics record the PEG clause is present
\* exactly when the PEG check contributed +0.5, the Undervalued /
\* Overvalued clause exactly when the value-ratio check contributed
\* +0.5 / -0.5, the Oversold / Overbought clause exactly when the RSI check
\* contributed +0.5 / -0.5, and a MACD clause exactly when the histogram is
\* present, Bullish on +0.3 and Bearish on -0.3 (a histogram of 0 included)
C21_ClausesMatchChecks ==
    Returned("generate_signal") /\ ~result.raised /\ call.metrics # NoMetrics =>
        LET m == call.metrics
            reasoning == result.signal.reasoning
            has(text) == \E i \in 1..Len(reasoning) : reasoning[i].text = text
        IN  /\ has("Strong PEG ratio ()") <=>
                   (PegChecked(m) /\ PegDelta(m) = S(5))
            /\ has("Undervalued (% of intrinsic value)") <=>
                   (ValueRatioChecked(m) /\ ValueRatioDelta(m) = S(5))
            /\ has("Overvalued (% of intrinsic value)") <=>
                   (ValueRatioChecked(m) /\ ValueRatioDelta(m) = -S(5))
            /\ has("Oversold RSI ()") <=>
                   (RsiChecked(m) /\ RsiDelta(m) = S(5))
            /\ has("Overbought RSI ()") <=>
                   (RsiChecked(m) /\ RsiDelta(m) = -S(5))
            /\ has("Bullish MACD") <=>
                   (MacdChecked(m) /\ MacdDelta(m) = S(3))
            /\ has("Bearish MACD") <=>
                   (MacdChecked(m) /\ MacdDelta(m) = -S(3))

\* C22: _calculate_intrinsic_value is unavailable exactly when the trailing
\* EPS is missing; otherwise it is EPS * (8.5 + 2g) * 4.4 / 4.5 with
\* g = growth * 100 whenever a growth value is present (a growth of 0 gives
\* g = 0) and g = 10 only when the growth value is absent
C22_GrahamValue ==
    Returned("_calculate_fundamentals")
    /\ "intrinsic_value" \in DOMAIN result.value =>
        LET eps == call.info.trailingEps
            growth == call.info.earningsGrowth
            g == IF growth = None THEN H(10) ELSE growth * 100
            value == result.value["intrinsic_value"]
        IN  /\ value = None <=> eps = None
            /\ eps # None =>
                   value = RoundDiv(eps * (850 + 2 * g) * 44, H(1) * 45)

\* the place of a tag in STRONG_SELL < SELL < HOLD < BUY < STRONG_BUY
TagRank(tag) ==
    CASE tag = "STRONG_SELL" -> 1
      [] tag = "SELL" -> 2
      [] tag = "HOLD" -> 3
      [] tag = "BUY" -> 4
      [] tag = "STRONG_BUY" -> 5

\* the scores decided so far with their tags, the current call included
\* once it has returned
Decisions ==
    IF result = Pending THEN history
    ELSE Append(history, [score |-> call.score, decision |-> result.decision])

\* C23: under thresholds ordered strong_sell < sell <= 0 <= buy <
\* strong_buy the tag is monotone in the combined score: of two scores
\* s1 <= s2 the tag of s1 is not above the tag of s2 in the order
\* STRONG_SELL < SELL < HOLD < BUY < STRONG_BUY, and HOLD is returned
\* exactly when sell < score < buy
C23_TagMonotone ==
    (/\ call.op = "_score_to_decision"
     /\ cfg.STRONG_SELL_THRESHOLD < cfg.SELL_THRESHOLD
     /\ cfg.SELL_THRESHOLD <= 0
     /\ 0 <= cfg.BUY_THRESHOLD
     /\ cfg.BUY_THRESHOLD < cfg.STRONG_BUY_THRESHOLD)
    =>  /\ \A i, j \in 1..Len(Decisions) :
               Decisions[i].score <= Decisions[j].score =>
                   TagRank(Decisions[i].decision) <= TagRank(Decisions[j].decision)
        /\ \A i \in 1..Len(Decisions) :
               Decisions[i].decision = "HOLD" <=>
                   /\ T(cfg.SELL_THRESHOLD) < Decisions[i].score
                   /\ Decisions[i].score < T(cfg.BUY_THRESHOLD)

\* with sell = buy = 0 a score just below 0 was tagged SELL and the score 0
\* is tagged BUY: two scores in order with their tags in order and no HOLD
\* between them
C23_Witness ==
    /\ call.op = "_score_to_decision"
    /\ cfg.SELL_THRESHOLD = 0 /\ cfg.BUY_THRESHOLD = 0
    /\ Len(history) = 1
    /\ history[1].score = -10 * One
    /\ history[1].decision = "SELL"
    /\ result # Pending
    /\ call.score = 0
    /\ result.decision = "BUY"

====
